---- MODULE Spec2Model ----
(***************************************************************************)
(* Model of the timing logic of frontend/src/App.js:                       *)
(*   - the countdown helpers getThisMondayNoon, getNextResetTarget and     *)
(*     diffToDHMS, and the schedule helper msUntilNextEvenHour30;          *)
(*   - the re-fetch effect (arm / timer callback / cleanup) and loadData;  *)
(*   - the countdown tick effect;                                          *)
(*   - handleSearch and the rows the leaderboard renders.                  *)
(*                                                                         *)
(* A JavaScript Date is modelled by its local fields: the day number since *)
(* 1970-01-01 and the milliseconds within that day, [day, ms].  Local time *)
(* is taken at a fixed UTC offset (no daylight-saving transition inside    *)
(* the modelled window), so that adding milliseconds to getTime() and      *)
(* adding them to the local fields agree.                                  *)
(***************************************************************************)
EXTENDS Integers, Sequences, FiniteSets

VARIABLES
    now,          \* the time source: what new Date() returns
    fn,           \* helper that was called last on `now` ("none" before a call)
    retMs,        \* number returned by the last helper call
    retDate,      \* Date returned by the last helper call
    argTarget,    \* diffToDHMS: the target argument
    argNow,       \* diffToDHMS: the now argument of the last call
    retDHMS,      \* diffToDHMS: the duration returned by the last call
    prevNow,      \* diffToDHMS: the now argument of the call before the last
    prevDHMS,     \* diffToDHMS: the duration returned by the call before the last
    diffCalls,    \* diffToDHMS: calls made so far, counted up to 2
    cancelled,    \* re-fetch effect: let cancelled
    timeoutId,    \* re-fetch effect: let timeoutId (0 = undefined)
    timers,       \* pending setTimeout timers of the effect: set of [id, at]
    nextId,       \* next id setTimeout hands out
    pollInflight, \* loadData calls started by the timer callback, unresolved
    mountLoading, \* the mount effect's loadData call is unresolved
    originalData, \* React state originalData
    data,         \* React state data
    searchQuery,  \* React state searchQuery, a sequence of characters
    refreshCalls, \* number of loadData calls the timer callback has made
    lastOutcome,  \* outcome of the last resolved scheduler loadData
    cancelPoint,  \* where the cleanup ran: "none", "pending", "inflight"
    cancelAt,     \* the instant the cleanup ran
    mountAt,      \* the instant the effects ran on mount
    startedAt,    \* the instant the timer callback last called loadData
    finishedAt,   \* the instant such a loadData call last resolved
    target,       \* React state target
    tleft,        \* React state tleft
    ticked,       \* the interval callback has run at least once
    lastTick,     \* the `now` read by the last interval callback
    prevTarget    \* the target that was stored when the last interval callback ran

diffVars == <<argTarget, argNow, retDHMS, prevNow, prevDHMS, diffCalls>>
calcVars == <<fn, retMs, retDate, diffVars>>
pollVars == <<cancelled, timeoutId, timers, nextId, pollInflight, mountLoading,
              originalData, data, searchQuery, refreshCalls, lastOutcome, cancelPoint, cancelAt,
              mountAt, startedAt, finishedAt>>
tickVars == <<target, tleft, ticked, lastTick, prevTarget>>
vars == <<now, calcVars, pollVars, tickVars>>

----------------------------------------------------------------------------
(* Units                                                                   *)

MsPerSec == 1000
SecPerMin == 60
SecPerHour == 3600
SecPerDay == 86400
MsPerMin == SecPerMin * MsPerSec
MsPerHour == SecPerHour * MsPerSec
MsPerDay == SecPerDay * MsPerSec

(* Bounds of the modelled window: days since 1970-01-01 (a Thursday).      *)
(* Day 25 is Monday 26 January, day 31 is Sunday 1 February.               *)
FirstDay == 25
LastDay == 38

----------------------------------------------------------------------------
(* Date: the local fields and the Date methods the code uses               *)

MkDate(d, m) == [day |-> d, ms |-> m]

(* a < b, a <= b on Dates (relational operators compare the time values) *)
DateLt(a, b) == a.day < b.day \/ (a.day = b.day /\ a.ms < b.ms)
DateLe(a, b) == a.day < b.day \/ (a.day = b.day /\ a.ms <= b.ms)

(* a - b on Dates: the difference of the time values in milliseconds *)
DateDiff(a, b) == (a.day - b.day) * MsPerDay + (a.ms - b.ms)

(* new Date(a.getTime() + k) *)
DatePlusMs(a, k) ==
    LET total == a.ms + k
    IN  MkDate(a.day + (total \div MsPerDay), total % MsPerDay)

getHours(d) == d.ms \div MsPerHour
getMinutes(d) == (d.ms \div MsPerMin) % 60

setSeconds(d, s, x) ==
    [d EXCEPT !.ms = getHours(d) * MsPerHour + getMinutes(d) * MsPerMin
                     + s * MsPerSec + x]
setMinutes(d, m, s, x) ==
    [d EXCEPT !.ms = getHours(d) * MsPerHour + m * MsPerMin + s * MsPerSec + x]
setHours(d, h, m, s, x) ==
    [d EXCEPT !.ms = h * MsPerHour + m * MsPerMin + s * MsPerSec + x]

(* getDay: 0 = Sunday ... 6 = Saturday; day 0 (1970-01-01) is a Thursday *)
getDay(d) == (d.day + 4) % 7

(* Day numbers of the first of each month, January to April 1970 *)
MonthStarts == {0, 31, 59, 90}
MonthStart(dayNo) ==
    CHOOSE s \in MonthStarts :
        s <= dayNo /\ \A u \in MonthStarts : u <= dayNo => u <= s

(* getDate: day of the month, 1-based *)
getDate(d) == d.day - MonthStart(d.day) + 1

(* setDate(n): day n of the date's month; n outside the month carries over *)
setDate(d, n) == [d EXCEPT !.day = MonthStart(d.day) + n - 1]

----------------------------------------------------------------------------
(* Countdown helpers                                                       *)

getThisMondayNoon_nextDay(d) ==
    LET day == getDay(d)
        diffToMonday == day - 1
        monday == setDate(d, getDate(d) - diffToMonday)
    IN  setHours(monday, 12, 0, 0, 0)

getThisMondayNoon(d) ==
    LET day == getDay(d)
        diffToMonday == (day + 6) % 7
        monday == setDate(d, getDate(d) - diffToMonday)
    IN  setHours(monday, 12, 0, 0, 0)

getNextResetTarget_le(n) ==
    LET thisMondayNoon == getThisMondayNoon(n)
    IN  IF DateLe(n, thisMondayNoon) THEN thisMondayNoon
        ELSE setDate(thisMondayNoon, getDate(thisMondayNoon) + 7)

getNextResetTarget_notFuture(n) ==
    LET thisMondayNoon == getThisMondayNoon(n)
    IN  IF DateLt(n, thisMondayNoon) THEN thisMondayNoon
        ELSE setDate(thisMondayNoon, getDate(thisMondayNoon) + 0)

getNextResetTarget(n) ==
    LET thisMondayNoon == getThisMondayNoon(n)
    IN  IF DateLt(n, thisMondayNoon) THEN thisMondayNoon
        ELSE setDate(thisMondayNoon, getDate(thisMondayNoon) + 7)

Max(a, b) == IF a >= b THEN a ELSE b

diffToDHMS_noClamp(tgt, n) ==
    LET ms == DateDiff(tgt, n)
        totalSec == ms \div 1000
    IN  [d |-> totalSec \div 86400,
         h |-> (totalSec % 86400) \div 3600,
         m |-> (totalSec % 3600) \div 60,
         s |-> totalSec % 60]

diffToDHMS_hours(tgt, n) ==
    LET ms == Max(0, DateDiff(tgt, n))
        totalSec == ms \div 1000
    IN  [d |-> totalSec \div 86400,
         h |-> totalSec \div 3600,
         m |-> (totalSec % 3600) \div 60,
         s |-> totalSec % 60]

diffToDHMS(tgt, n) ==
    LET ms == Max(0, DateDiff(tgt, n))
        totalSec == ms \div 1000
    IN  [d |-> totalSec \div 86400,
         h |-> (totalSec % 86400) \div 3600,
         m |-> (totalSec % 3600) \div 60,
         s |-> totalSec % 60]

----------------------------------------------------------------------------
(* Schedule helper: next EVEN hour :30                                     *)

msUntilNextEvenHour30_le30(n) ==
    LET t == setSeconds(n, 0, 0)
    IN  IF getHours(t) % 2 = 0 /\ getMinutes(t) <= 30
        THEN DateDiff(setMinutes(t, 30, 0, 0), n)
        ELSE LET addHours == IF getHours(t) % 2 = 1 THEN 1 ELSE 2
                 cand == DatePlusMs(t, addHours * 3600 * 1000)
             IN  DateDiff(setMinutes(cand, 30, 0, 0), n)

msUntilNextEvenHour30_add2(n) ==
    LET t == setSeconds(n, 0, 0)
    IN  IF getHours(t) % 2 = 0 /\ getMinutes(t) < 30
        THEN DateDiff(setMinutes(t, 30, 0, 0), n)
        ELSE LET addHours == 2
                 cand == DatePlusMs(t, addHours * 3600 * 1000)
             IN  DateDiff(setMinutes(cand, 30, 0, 0), n)

msUntilNextEvenHour30(n) ==
    LET t == setSeconds(n, 0, 0)
    IN  IF getHours(t) % 2 = 0 /\ getMinutes(t) < 30
        THEN DateDiff(setMinutes(t, 30, 0, 0), n)
        ELSE LET addHours == IF getHours(t) % 2 = 1 THEN 1 ELSE 2
                 cand == DatePlusMs(t, addHours * 3600 * 1000)
             IN  DateDiff(setMinutes(cand, 30, 0, 0), n)

----------------------------------------------------------------------------
(* The helpers applied to an instant                                        *)

(* Minutes, seconds and milliseconds of the instants the helpers are       *)
(* applied to: both sides of every minute-30 and whole-minute boundary.    *)
CalcMinutes == {0, 10, 15, 29, 30, 31, 59}
CalcSeconds == {0, 59}
CalcMillis == {0, 1, 999}
CalcTimes ==
    {h * MsPerHour + m * MsPerMin + s * MsPerSec + x :
        h \in 0..23, m \in CalcMinutes, s \in CalcSeconds, x \in CalcMillis}
CalcInputs == {MkDate(d, t) : d \in FirstDay..LastDay, t \in CalcTimes}

NoDate == MkDate(0, 0)

PollIdle ==
    /\ cancelled = FALSE
    /\ timeoutId = 0
    /\ timers = {}
    /\ nextId = 1
    /\ pollInflight = 0
    /\ mountLoading = FALSE
    /\ originalData = <<>>
    /\ data = <<>>
    /\ searchQuery = <<>>
    /\ refreshCalls = 0
    /\ lastOutcome = "none"
    /\ cancelPoint = "none"
    /\ cancelAt = NoDate
    /\ mountAt = NoDate
    /\ startedAt = NoDate
    /\ finishedAt = NoDate

TickIdle ==
    /\ target = NoDate
    /\ tleft = [d |-> 0, h |-> 0, m |-> 0, s |-> 0]
    /\ ticked = FALSE
    /\ lastTick = NoDate
    /\ prevTarget = NoDate

ZeroDHMS == [d |-> 0, h |-> 0, m |-> 0, s |-> 0]

DiffIdle ==
    /\ argTarget = NoDate
    /\ argNow = NoDate
    /\ retDHMS = ZeroDHMS
    /\ prevNow = NoDate
    /\ prevDHMS = ZeroDHMS
    /\ diffCalls = 0

CalcIdle ==
    /\ fn = "none"
    /\ retMs = 0
    /\ retDate = NoDate
    /\ DiffIdle

InitCalc ==
    /\ now \in CalcInputs
    /\ CalcIdle
    /\ PollIdle
    /\ TickIdle

Call_msUntilNextEvenHour30 ==
    /\ fn' = "msUntilNextEvenHour30"
    /\ retMs' = msUntilNextEvenHour30(now)
    /\ retDate' = NoDate
    /\ UNCHANGED <<now, diffVars, pollVars, tickVars>>

Call_getThisMondayNoon ==
    /\ fn' = "getThisMondayNoon"
    /\ retDate' = getThisMondayNoon(now)
    /\ retMs' = 0
    /\ UNCHANGED <<now, diffVars, pollVars, tickVars>>

Call_getNextResetTarget ==
    /\ fn' = "getNextResetTarget"
    /\ retDate' = getNextResetTarget(now)
    /\ retMs' = 0
    /\ UNCHANGED <<now, diffVars, pollVars, tickVars>>

NextCalc ==
    \/ Call_msUntilNextEvenHour30
    \/ Call_getThisMondayNoon
    \/ Call_getNextResetTarget

SpecCalc == InitCalc /\ [][NextCalc]_vars

----------------------------------------------------------------------------
(* Properties of msUntilNextEvenHour30                                     *)

TwoHoursMs == 2 * MsPerHour

(* An even-numbered hour at minute 30, second 0, millisecond 0 *)
IsEvenHour30(d) ==
    /\ getHours(d) % 2 = 0
    /\ d.ms = getHours(d) * MsPerHour + 30 * MsPerMin

(* The even-hour :30 instants of a day *)
EvenHour30sOf(dayNo) == {MkDate(dayNo, (2 * k) * MsPerHour + 30 * MsPerMin) : k \in 0..11}

----------------------------------------------------------------------------
(* Properties of getThisMondayNoon and getNextResetTarget                  *)

NoonMs == 12 * MsPerHour

(* C7: getNextResetTarget(now) is getThisMondayNoon(now) when now is       *)
(* strictly before that anchor and the anchor plus 7 calendar days         *)
(* otherwise, the exact anchor included; Monday 11:00 gives the same       *)
(* Monday 12:00 and Monday 13:00 the following Monday 12:00.               *)
C7_NextResetTarget ==
    fn = "getNextResetTarget" =>
        LET anchor == getThisMondayNoon(now)
        IN  /\ (DateLt(now, anchor) => retDate = anchor)
            /\ (~DateLt(now, anchor) => retDate = MkDate(anchor.day + 7, anchor.ms))
            /\ (getDay(now) = 1 /\ now.ms = 11 * MsPerHour
                    => retDate = MkDate(now.day, NoonMs))
            /\ (getDay(now) = 1 /\ now.ms = 13 * MsPerHour
                    => retDate = MkDate(now.day + 7, NoonMs))

(* Monday 12:00:00.000 exactly, in the last week of January: the result is *)
(* the Monday of the next month                                            *)
C7_Witness ==
    /\ fn = "getNextResetTarget"
    /\ now = MkDate(25, NoonMs)
    /\ retDate = MkDate(32, NoonMs)

(* C8: getNextResetTarget(now) is strictly later than now whenever now is  *)
(* not the anchor itself, and at now = getThisMondayNoon(now) the result   *)
(* is the anchor plus 7 days, not now.                                     *)
C8_StrictlyFuture ==
    fn = "getNextResetTarget" =>
        /\ (now # getThisMondayNoon(now) => DateLt(now, retDate))
        /\ (now = getThisMondayNoon(now)
                => retDate = MkDate(now.day + 7, now.ms) /\ retDate # now)

C8_Witness ==
    /\ fn = "getNextResetTarget"
    /\ getDay(now) = 1
    /\ now.ms = NoonMs + 1
    /\ DateDiff(retDate, now) = 7 * MsPerDay - 1

(* C10: getThisMondayNoon(now) is a Monday at 12:00:00.000 in the Monday   *)
(* to Sunday week that contains now (a Sunday maps to the Monday six days  *)
(* earlier), and applying the function to its result returns the result.   *)
C10_MondayNoonOfWeek ==
    fn = "getThisMondayNoon" =>
        /\ getDay(retDate) = 1
        /\ retDate.ms = NoonMs
        /\ retDate.day <= now.day
        /\ now.day <= retDate.day + 6
        /\ (getDay(now) = 0 => retDate.day = now.day - 6)
        /\ getThisMondayNoon(retDate) = retDate

(* Sunday 1 February maps to Monday 26 January *)
C10_Witness ==
    /\ fn = "getThisMondayNoon"
    /\ now.day = 31
    /\ getDay(now) = 0
    /\ retDate = MkDate(25, NoonMs)

----------------------------------------------------------------------------
(* loadData: the rows the REST endpoint returns, the defensive sort, norm  *)

(* Bound: the longest response modelled *)
MaxRows == 2

(* pct_change of a row: JSON null or a number *)
PctValues == {[kind |-> "null", v |-> 0],
              [kind |-> "num", v |-> -1],
              [kind |-> "num", v |-> 2]}

(* customer_name of the account with a given id, as a sequence of characters *)
CustomerName(i) == IF i = 1 THEN <<"A", "b">> ELSE <<"b">>

(* order=pct_change.desc.nullslast: p may stand before q in a response *)
ServerBefore(p, q) ==
    \/ q.kind = "null"
    \/ p.kind = "num" /\ q.kind = "num" /\ p.v >= q.v

(* The responses: up to MaxRows rows in the order the query asks for; row  *)
(* i carries account_id i                                                  *)
Responses ==
    UNION {{[i \in 1..n |-> [account_id |-> i,
                             customer_name |-> CustomerName(i),
                             pct_change |-> f[i]]] :
                f \in {g \in [1..n -> PctValues] :
                          \A i, j \in 1..n : i < j => ServerBefore(g[i], g[j])}} :
           n \in 0..MaxRows}

(* Number(x): Number(null) is 0 *)
ToNumber(p) == IF p.kind = "null" THEN 0 ELSE p.v

(* Number.isFinite(Number(x)): every modelled value converts to a finite number *)
IsFiniteNumber(p) == p.kind \in {"null", "num"}

(* The comparator's key: [fin, v], fin = FALSE standing for -Infinity *)
SortKey(r) ==
    IF IsFiniteNumber(r.pct_change)
    THEN [fin |-> TRUE, v |-> ToNumber(r.pct_change)]
    ELSE [fin |-> FALSE, v |-> 0]

(* The comparator (a, b) => bv - av: its sign, NaN (-Infinity - -Infinity) *)
(* counting as 0                                                           *)
Compare(a, b) ==
    LET av == SortKey(a)
        bv == SortKey(b)
    IN  IF ~av.fin /\ ~bv.fin THEN 0
        ELSE IF ~bv.fin THEN -1
        ELSE IF ~av.fin THEN 1
        ELSE IF bv.v > av.v THEN 1
        ELSE IF bv.v < av.v THEN -1
        ELSE 0

(* Array.prototype.sort is stable: x goes after every element that does    *)
(* not compare after it                                                    *)
RECURSIVE InsertSorted(_, _)
InsertSorted(sorted, x) ==
    IF sorted = <<>> THEN <<x>>
    ELSE LET last == sorted[Len(sorted)]
         IN  IF Compare(last, x) <= 0 THEN Append(sorted, x)
             ELSE Append(InsertSorted(SubSeq(sorted, 1, Len(sorted) - 1), x), last)

RECURSIVE SortRows(_)
SortRows(rows) ==
    IF rows = <<>> THEN <<>>
    ELSE InsertSorted(SortRows(SubSeq(rows, 1, Len(rows) - 1)), rows[Len(rows)])

(* norm keeps the fields of a row (null pct_change stays null) *)
Norm(r) == [account_id |-> r.account_id,
            customer_name |-> r.customer_name,
            pct_change |-> r.pct_change]

(* What loadData stores: the sorted, normalised rows of a successful       *)
(* fetch, the empty list after any failure (the catch block)               *)
Outcomes == {[ok |-> TRUE, rows |-> r] : r \in Responses} \cup {[ok |-> FALSE, rows |-> <<>>]}

LoadedRows(o) ==
    IF o.ok THEN LET sorted == SortRows(o.rows)
                 IN  [i \in 1..Len(sorted) |-> Norm(sorted[i])]
    ELSE <<>>

----------------------------------------------------------------------------
(* The re-fetch effect: arm, the timer callback, the cleanup               *)

(* Bounds of the clock of the scheduler model: instants every half hour    *)
(* from 21:00 of the first day, across midnight.                           *)
PollSteps == 8
PollStepMs == 30 * MsPerMin
PollOrigin == MkDate(FirstDay, 21 * MsPerHour)
PollClock == {DatePlusMs(PollOrigin, k * PollStepMs) : k \in 0..PollSteps}

(* A repeating two-hour period in place of the computed delay *)
Arm_fixedPeriod(others) ==
    /\ timeoutId' = nextId
    /\ nextId' = nextId + 1
    /\ timers' = others \cup {[id |-> nextId, at |-> DatePlusMs(now, 2 * 3600 * 1000)]}

(* arm(): a one-shot timer for msUntilNextEvenHour30() from now, its id    *)
(* kept in timeoutId; `others` are the timers that stay pending            *)
Arm(others) ==
    LET ms == msUntilNextEvenHour30(now)
    IN  /\ timeoutId' = nextId
        /\ nextId' = nextId + 1
        /\ timers' = others \cup {[id |-> nextId, at |-> DatePlusMs(now, ms)]}

(* State after mount: the mount effect has called loadData, the re-fetch   *)
(* effect has called arm()                                                 *)
PollMounted ==
    /\ CalcIdle
    /\ TickIdle
    /\ cancelled = FALSE
    /\ timeoutId = 1
    /\ nextId = 2
    /\ timers = {[id |-> 1, at |-> DatePlusMs(now, msUntilNextEvenHour30(now))]}
    /\ pollInflight = 0
    /\ mountLoading = TRUE
    /\ originalData = <<>>
    /\ data = <<>>
    /\ searchQuery = <<>>
    /\ refreshCalls = 0
    /\ lastOutcome = "none"
    /\ cancelPoint = "none"
    /\ cancelAt = NoDate
    /\ mountAt = now
    /\ startedAt = NoDate
    /\ finishedAt = NoDate

InitPoll ==
    /\ now \in PollClock
    /\ PollMounted

(* Time passes *)
AdvanceClock ==
    /\ \E n \in PollClock : DateLt(now, n) /\ now' = n
    /\ UNCHANGED <<calcVars, pollVars, tickVars>>

(* The mount effect's loadData resolves *)
MountLoadResolve ==
    /\ mountLoading
    /\ mountLoading' = FALSE
    /\ \E o \in Outcomes :
          /\ originalData' = LoadedRows(o)
          /\ data' = LoadedRows(o)
    /\ UNCHANGED <<now, calcVars, tickVars, searchQuery, cancelled, timeoutId, timers, nextId,
                   pollInflight, refreshCalls, lastOutcome, cancelPoint, cancelAt,
                   mountAt, startedAt, finishedAt>>

(* A due timer fires and arms the next one before awaiting loadData *)
TimerFire_armFirst ==
    \E t \in timers :
        /\ DateLe(t.at, now)
        /\ IF cancelled
           THEN /\ timers' = timers \ {t}
                /\ UNCHANGED <<timeoutId, nextId, pollInflight, refreshCalls, startedAt>>
           ELSE /\ pollInflight' = pollInflight + 1
                /\ refreshCalls' = refreshCalls + 1
                /\ startedAt' = now
                /\ Arm(timers \ {t})
        /\ UNCHANGED <<now, calcVars, tickVars, searchQuery, cancelled, mountLoading, originalData,
                       data, lastOutcome, cancelPoint, cancelAt, mountAt, finishedAt>>

(* A due timer fires: the callback returns if cancelled, otherwise calls   *)
(* loadData and suspends at the await                                      *)
TimerFire ==
    \E t \in timers :
        /\ DateLe(t.at, now)
        /\ timers' = timers \ {t}
        /\ IF cancelled
           THEN UNCHANGED <<pollInflight, refreshCalls, startedAt>>
           ELSE /\ pollInflight' = pollInflight + 1
                /\ refreshCalls' = refreshCalls + 1
                /\ startedAt' = now
        /\ UNCHANGED <<now, calcVars, tickVars, searchQuery, cancelled, timeoutId, nextId,
                       mountLoading, originalData, data, lastOutcome, cancelPoint,
                       cancelAt, mountAt, finishedAt>>

(* loadData without its catch block: a failure rejects and arm() is skipped *)
PollLoadResolve_rejects ==
    /\ pollInflight > 0
    /\ pollInflight' = pollInflight - 1
    /\ \E o \in Outcomes :
          /\ lastOutcome' = (IF o.ok THEN "ok" ELSE "error")
          /\ IF o.ok
             THEN /\ originalData' = LoadedRows(o)
                  /\ data' = LoadedRows(o)
                  /\ Arm(timers)
             ELSE UNCHANGED <<originalData, data, timeoutId, nextId, timers>>
    /\ finishedAt' = now
    /\ UNCHANGED <<now, calcVars, tickVars, searchQuery, cancelled, mountLoading, refreshCalls,
                   cancelPoint, cancelAt, mountAt, startedAt>>

(* The callback's loadData resolves (it stores the rows, or the empty list *)
(* after a failure, and never rejects); the callback resumes and calls     *)
(* arm(), without looking at cancelled                                     *)
PollLoadResolve ==
    /\ pollInflight > 0
    /\ pollInflight' = pollInflight - 1
    /\ \E o \in Outcomes :
          /\ lastOutcome' = (IF o.ok THEN "ok" ELSE "error")
          /\ originalData' = LoadedRows(o)
          /\ data' = LoadedRows(o)
    /\ Arm(timers)
    /\ finishedAt' = now
    /\ UNCHANGED <<now, calcVars, tickVars, searchQuery, cancelled, mountLoading, refreshCalls,
                   cancelPoint, cancelAt, mountAt, startedAt>>

(* An effect that registers no cleanup: unmounting changes nothing *)
Cleanup_none ==
    /\ ~cancelled
    /\ cancelPoint = "none"
    /\ cancelPoint' = (IF pollInflight = 0 /\ timers # {} THEN "pending" ELSE "inflight")
    /\ cancelAt' = now
    /\ UNCHANGED <<now, calcVars, tickVars, searchQuery, cancelled, timers, timeoutId, nextId,
                   pollInflight, mountLoading, originalData, data, refreshCalls,
                   lastOutcome, mountAt, startedAt, finishedAt>>

(* The effect's cleanup: cancelled = true; if (timeoutId) clearTimeout(timeoutId) *)
Cleanup ==
    /\ ~cancelled
    /\ cancelPoint = "none"
    /\ cancelled' = TRUE
    /\ timers' = (IF timeoutId # 0 THEN {t \in timers : t.id # timeoutId} ELSE timers)
    /\ cancelPoint' = (IF pollInflight = 0 /\ timers # {} THEN "pending" ELSE "inflight")
    /\ cancelAt' = now
    /\ UNCHANGED <<now, calcVars, tickVars, searchQuery, timeoutId, nextId, pollInflight,
                   mountLoading, originalData, data, refreshCalls, lastOutcome,
                   mountAt, startedAt, finishedAt>>

NextPoll ==
    \/ AdvanceClock
    \/ MountLoadResolve
    \/ TimerFire
    \/ PollLoadResolve
    \/ Cleanup

SpecPoll == InitPoll /\ [][NextPoll]_vars

----------------------------------------------------------------------------
(* Properties of the re-fetch effect                                       *)

(* The first even-hour :30 instant strictly after n *)
NextEvenHour30After(n) ==
    LET later == {a \in EvenHour30sOf(n.day) \cup EvenHour30sOf(n.day + 1) : DateLt(n, a)}
    IN  CHOOSE a \in later : \A b \in later : DateLe(a, b)

(* A step in which a loadData call of the timer callback resolves *)
PollAttemptFinished == pollInflight' = pollInflight - 1

(* C1: whenever a refresh started by a fired timer has finished, with      *)
(* success or with failure, and the effect is not cancelled, a new timer   *)
(* is armed in that step for the next even-hour :30 after the instant the  *)
(* attempt finished, and its id is kept in timeoutId; while the effect is  *)
(* not cancelled and no refresh is in flight, a timer is pending.          *)
C1_RearmAfterAttempt ==
    /\ [][(PollAttemptFinished /\ ~cancelled')
            => \E t \in timers' \ timers :
                  /\ t.id = timeoutId'
                  /\ t.at = NextEvenHour30After(now)
                  /\ lastOutcome' \in {"ok", "error"}]_vars
    /\ []((~cancelled /\ pollInflight = 0) => timers # {})

(* A failed refresh has resolved and the next timer is pending *)
C1_Witness ==
    /\ lastOutcome = "error"
    /\ ~cancelled
    /\ refreshCalls >= 1
    /\ pollInflight = 0
    /\ \E t \in timers : t.id = timeoutId /\ t.at = NextEvenHour30After(now)

(* C2: once the cleanup has run while a timer was pending and no refresh   *)
(* was in flight, the timer callback makes no further loadData call.       *)
C2_NoRefreshAfterCancel ==
    [][cancelPoint = "pending" => refreshCalls' = refreshCalls]_vars

(* The cleanup ran with a timer pending, and the clock has since passed    *)
(* the instant that timer was set for                                      *)
C2_Witness ==
    /\ cancelPoint = "pending"
    /\ DateDiff(now, cancelAt) >= TwoHoursMs
    /\ timers = {}
    /\ pollInflight = 0

(* C3 as stated: after the cleanup no timer of the chain is pending,       *)
(* wherever in the chain the cleanup ran.                                  *)
C3_NoTimerAfterTeardown ==
    cancelled => timers = {}

(* C4: at most one loadData call started by the timer callback is          *)
(* unresolved.                                                             *)
C4_SingleRefreshInFlight ==
    pollInflight <= 1

(* A second refresh is in flight, started after the first resolved *)
C4_Witness ==
    /\ pollInflight = 1
    /\ refreshCalls >= 2
    /\ lastOutcome # "none"

----------------------------------------------------------------------------
(* The countdown tick effect                                               *)

(* Bound: the clock of the countdown model covers this many days after the *)
(* first, at instants around local noon and midnight                       *)
TickDays == 9
TickTimes == {0,
              NoonMs - MsPerSec, NoonMs - 1, NoonMs, NoonMs + 1, NoonMs + MsPerSec,
              MsPerDay - 1}
TickClock == {MkDate(d, t) : d \in FirstDay..(FirstDay + TickDays), t \in TickTimes}

(* State after the first render: useState(getNextResetTarget()) and        *)
(* useState(diffToDHMS(target)) each read the clock, the second possibly a *)
(* millisecond after the first                                             *)
InitTick ==
    /\ now \in TickClock
    /\ CalcIdle
    /\ PollIdle
    /\ \E n0 \in {now, DatePlusMs(now, -1)} : target = getNextResetTarget(n0)
    /\ tleft = diffToDHMS(target, now)
    /\ ticked = FALSE
    /\ lastTick = NoDate
    /\ prevTarget = NoDate

(* Time passes *)
TickClockAdvance ==
    /\ \E n \in TickClock : DateLt(now, n) /\ now' = n
    /\ UNCHANGED <<calcVars, pollVars, tickVars>>

(* An interval callback that shows the time left to the expired target *)
CountdownTick_stale ==
    /\ IF DateLe(target, now)
       THEN /\ target' = getNextResetTarget(now)
            /\ tleft' = diffToDHMS(target, now)
       ELSE /\ target' = target
            /\ tleft' = diffToDHMS(target, now)
    /\ ticked' = TRUE
    /\ lastTick' = now
    /\ prevTarget' = target
    /\ UNCHANGED <<now, calcVars, pollVars>>

(* An interval callback that moves an expired target on by one week *)
CountdownTick_oneWeek ==
    /\ IF DateLe(target, now)
       THEN LET nextT == setDate(target, getDate(target) + 7)
            IN  /\ target' = nextT
                /\ tleft' = diffToDHMS(nextT, now)
       ELSE /\ target' = target
            /\ tleft' = diffToDHMS(target, now)
    /\ ticked' = TRUE
    /\ lastTick' = now
    /\ prevTarget' = target
    /\ UNCHANGED <<now, calcVars, pollVars>>

(* The setInterval callback: const now = new Date(); if (now >= target)    *)
(* replace the target and show the time left to the new one, else show the *)
(* time left to the stored one                                             *)
CountdownTick ==
    /\ IF DateLe(target, now)
       THEN LET nextT == getNextResetTarget(now)
            IN  /\ target' = nextT
                /\ tleft' = diffToDHMS(nextT, now)
       ELSE /\ target' = target
            /\ tleft' = diffToDHMS(target, now)
    /\ ticked' = TRUE
    /\ lastTick' = now
    /\ prevTarget' = target
    /\ UNCHANGED <<now, calcVars, pollVars>>

NextTick ==
    \/ TickClockAdvance
    \/ CountdownTick

SpecTick == InitTick /\ [][NextTick]_vars

(* A step in which the interval callback ran *)
TickStep == ticked' /\ (~ticked \/ lastTick' # lastTick)

(* Whole seconds a duration {d, h, m, s} stands for *)
DurationSeconds(t) == t.d * 86400 + t.h * 3600 + t.m * 60 + t.s

(* C9: a tick at instant now replaces an expired target (now >= target) by *)
(* getNextResetTarget(now) and shows diffToDHMS(new target, now); it       *)
(* keeps an unexpired target and shows diffToDHMS(target, now).  After any *)
(* tick the duration shown is the time from that tick's now to the stored  *)
(* target, which lies after that now.                                      *)
C9_TickAgainstStoredTarget ==
    /\ [][TickStep =>
            /\ lastTick' = now
            /\ IF DateLe(target, now)
               THEN /\ target' = getNextResetTarget(now)
                    /\ tleft' = diffToDHMS(target', now)
               ELSE /\ target' = target
                    /\ tleft' = diffToDHMS(target, now)]_vars
    /\ [](ticked =>
            /\ DateLt(lastTick, target)
            /\ tleft = diffToDHMS(target, lastTick)
            /\ DurationSeconds(tleft) = DateDiff(target, lastTick) \div MsPerSec)

(* A tick exactly at Monday 12:00:00.000 has replaced the target: a whole  *)
(* week is shown                                                           *)
C9_Witness ==
    /\ ticked
    /\ lastTick = MkDate(32, NoonMs)
    /\ target = MkDate(39, NoonMs)
    /\ tleft = [d |-> 7, h |-> 0, m |-> 0, s |-> 0]

----------------------------------------------------------------------------
(* diffToDHMS applied to a target at instants that do not go backwards     *)

(* Bound: the instants lie in this many days after the first *)
DiffDays == 2
DiffTimes == {0, 999, 1000, 1001, MsPerMin - 1, MsPerMin, MsPerHour - 1, MsPerHour,
              NoonMs, MsPerDay - MsPerSec, MsPerDay - 1}
DiffClock == {MkDate(d, t) : d \in FirstDay..(FirstDay + DiffDays), t \in DiffTimes}
(* Targets before, inside and after the instants, one off the whole second *)
DiffTargets == {MkDate(FirstDay, MsPerSec),
                MkDate(FirstDay + 1, NoonMs),
                MkDate(FirstDay + 9, NoonMs + 500)}

InitDiff ==
    /\ now \in DiffClock
    /\ fn = "none"
    /\ retMs = 0
    /\ retDate = NoDate
    /\ argTarget \in DiffTargets
    /\ argNow = NoDate
    /\ retDHMS = ZeroDHMS
    /\ prevNow = NoDate
    /\ prevDHMS = ZeroDHMS
    /\ diffCalls = 0
    /\ PollIdle
    /\ TickIdle

(* Time passes *)
DiffClockAdvance ==
    /\ \E n \in DiffClock : DateLt(now, n) /\ now' = n
    /\ UNCHANGED <<calcVars, pollVars, tickVars>>

Call_diffToDHMS ==
    /\ fn' = "diffToDHMS"
    /\ argNow' = now
    /\ retDHMS' = diffToDHMS(argTarget, now)
    /\ prevNow' = argNow
    /\ prevDHMS' = retDHMS
    /\ diffCalls' = (IF diffCalls < 2 THEN diffCalls + 1 ELSE 2)
    /\ UNCHANGED <<now, retMs, retDate, argTarget, pollVars, tickVars>>

NextDiff ==
    \/ DiffClockAdvance
    \/ Call_diffToDHMS

SpecDiff == InitDiff /\ [][NextDiff]_vars

(* C11: the components satisfy 0 <= s < 60, 0 <= m < 60, 0 <= h < 24 and   *)
(* d >= 0, and d*86400 + h*3600 + m*60 + s is the whole seconds of         *)
(* max(0, target - now).                                                   *)
C11_Decomposition ==
    diffCalls >= 1 =>
        LET diff == DateDiff(argTarget, argNow)
            clamped == IF diff < 0 THEN 0 ELSE diff
        IN  /\ 0 <= retDHMS.s /\ retDHMS.s < 60
            /\ 0 <= retDHMS.m /\ retDHMS.m < 60
            /\ 0 <= retDHMS.h /\ retDHMS.h < 24
            /\ retDHMS.d >= 0
            /\ retDHMS.d * 86400 + retDHMS.h * 3600 + retDHMS.m * 60 + retDHMS.s
                   = clamped \div 1000

(* More than a day left, every component non-zero, the difference off the *)
(* whole second                                                            *)
C11_Witness ==
    /\ diffCalls >= 1
    /\ DateDiff(argTarget, argNow) % 1000 # 0
    /\ retDHMS.d >= 1 /\ retDHMS.h >= 1 /\ retDHMS.m >= 1 /\ retDHMS.s >= 1

(* (d, h, m, s) compared lexicographically: a not greater than b *)
LexLe(a, b) ==
    \/ a.d < b.d
    \/ a.d = b.d /\ a.h < b.h
    \/ a.d = b.d /\ a.h = b.h /\ a.m < b.m
    \/ a.d = b.d /\ a.h = b.h /\ a.m = b.m /\ a.s <= b.s

(* C12: for one target and two instants now1 <= now2, diffToDHMS(target,   *)
(* now2) is not greater than diffToDHMS(target, now1) in lexicographic     *)
(* order of (d, h, m, s); for now >= target the result is {0, 0, 0, 0}.    *)
C12_NonIncreasing ==
    /\ (diffCalls >= 2 /\ DateLe(prevNow, argNow) => LexLe(retDHMS, prevDHMS))
    /\ (diffCalls >= 1 /\ DateLe(argTarget, argNow) => retDHMS = ZeroDHMS)

(* Two calls, the second strictly smaller, then past the target *)
C12_Witness ==
    /\ diffCalls >= 2
    /\ DateLt(prevNow, argTarget)
    /\ DateLt(argTarget, argNow)
    /\ prevDHMS # ZeroDHMS
    /\ retDHMS = ZeroDHMS

----------------------------------------------------------------------------
(* The re-fetch effect with timers that fire exactly when their delay has  *)
(* elapsed: time does not pass a pending timer                             *)

(* The instants of the scheduler clock and, after each, one off the minute *)
ExactOffsetMs == 7 * MsPerSec + 123
ExactClock == PollClock \cup {DatePlusMs(n, ExactOffsetMs) : n \in PollClock}

(* The mount instants: on the half hour before a boundary, off the minute, *)
(* and exactly on the first boundary                                       *)
ExactStarts == {PollOrigin,
                DatePlusMs(PollOrigin, ExactOffsetMs),
                DatePlusMs(PollOrigin, 3 * PollStepMs)}

InitExact ==
    /\ now \in ExactStarts
    /\ PollMounted

(* Time passes, up to the earliest pending timer *)
AdvanceClockExact ==
    /\ \E n \in ExactClock :
          /\ DateLt(now, n)
          /\ \A t \in timers : DateLe(n, t.at)
          /\ now' = n
    /\ UNCHANGED <<calcVars, pollVars, tickVars>>

NextExact ==
    \/ AdvanceClockExact
    \/ MountLoadResolve
    \/ TimerFire
    \/ PollLoadResolve
    \/ Cleanup

SpecExact == InitExact /\ [][NextExact]_vars

(* The last even-hour :30 instant at or before n *)
LastEvenHour30AtOrBefore(n) ==
    LET earlier == {a \in EvenHour30sOf(n.day - 1) \cup EvenHour30sOf(n.day) : DateLe(a, n)}
    IN  CHOOSE a \in earlier : \A b \in earlier : DateLe(b, a)

(* The last boundary has passed while the effect is mounted and active *)
BoundaryPassed(a) ==
    /\ ~cancelled
    /\ DateLt(mountAt, a)
    /\ DateLt(a, now)

----------------------------------------------------------------------------
(* Properties of the rows loadData stores                                  *)

(* pct_change is a finite number (not null) *)
IsNumberValue(p) == p.kind = "num"

(* C15 as stated: the stored rows are in descending order of pct_change,   *)
(* and every row whose pct_change is null comes after every row whose      *)
(* pct_change is a number, negative numbers included.                      *)
C15_SortedNullsLast ==
    \A i, j \in 1..Len(originalData) :
        i < j =>
            LET p == originalData[i].pct_change
                q == originalData[j].pct_change
            IN  /\ (IsNumberValue(q) => IsNumberValue(p))
                /\ (IsNumberValue(p) /\ IsNumberValue(q) => p.v >= q.v)

----------------------------------------------------------------------------
(* Search: handleSearch and the rows the leaderboard renders               *)

(* String.prototype.toLowerCase on the modelled characters *)
LowerChar(c) == IF c = "A" THEN "a" ELSE IF c = "B" THEN "b" ELSE c
toLowerCase(str) == [i \in 1..Len(str) |-> LowerChar(str[i])]

(* String.prototype.includes *)
includes(str, q) ==
    \E i \in 0..(Len(str) - Len(q)) : SubSeq(str, i + 1, i + Len(q)) = q

(* String(n) of a number of one digit, with its sign *)
DigitChar(n) ==
    CASE n = 0 -> "0" [] n = 1 -> "1" [] n = 2 -> "2" [] n = 3 -> "3" [] n = 4 -> "4"
      [] n = 5 -> "5" [] n = 6 -> "6" [] n = 7 -> "7" [] n = 8 -> "8" [] n = 9 -> "9"
NumberString(n) == IF n < 0 THEN <<"-", DigitChar(-n)>> ELSE <<DigitChar(n)>>

(* String(val ?? "") of the fields of a row, Object.values(row) *)
FieldStrings(row) ==
    {NumberString(row.account_id),
     row.customer_name,
     IF row.pct_change.kind = "null" THEN <<>> ELSE NumberString(row.pct_change.v)}

(* The filter predicate of handleSearch *)
RowMatches(row, q) ==
    \E str \in FieldStrings(row) : includes(toLowerCase(str), q)

RECURSIVE FilterRows(_, _)
FilterRows(rows, q) ==
    IF rows = <<>> THEN <<>>
    ELSE LET rest == FilterRows(SubSeq(rows, 1, Len(rows) - 1), q)
             last == rows[Len(rows)]
         IN  IF RowMatches(last, q) THEN Append(rest, last) ELSE rest

(* What the user types into the search box *)
SearchInputs == {<<>>, <<"B">>, <<"2">>}

(* originalData.slice(0, 30) *)
top30Data == SubSeq(originalData, 1, IF Len(originalData) < 30 THEN Len(originalData) ELSE 30)

(* rowsToRender: data when a query is set, the top 30 otherwise *)
rowsToRender == IF searchQuery # <<>> THEN data ELSE top30Data

(* Bound: the clock of the search model covers this many steps of the      *)
(* scheduler clock, past the first even-hour :30                           *)
SearchSteps == 4
SearchClock == {DatePlusMs(PollOrigin, k * PollStepMs) : k \in 0..SearchSteps}

InitSearch ==
    /\ now \in SearchClock
    /\ PollMounted

(* Time passes *)
SearchClockAdvance ==
    /\ \E n \in SearchClock : DateLt(now, n) /\ now' = n
    /\ UNCHANGED <<calcVars, pollVars, tickVars>>

(* handleSearch: the onChange handler of the search box *)
handleSearch ==
    /\ \E value \in SearchInputs :
          LET q == toLowerCase(value)
          IN  /\ searchQuery' = q
              /\ data' = (IF q = <<>> THEN originalData ELSE FilterRows(originalData, q))
    /\ UNCHANGED <<now, calcVars, tickVars, cancelled, timeoutId, timers, nextId,
                   pollInflight, mountLoading, originalData, refreshCalls, lastOutcome,
                   cancelPoint, cancelAt, mountAt, startedAt, finishedAt>>

NextSearch ==
    \/ SearchClockAdvance
    \/ MountLoadResolve
    \/ TimerFire
    \/ PollLoadResolve
    \/ handleSearch

SpecSearch == InitSearch /\ [][NextSearch]_vars

(* C16 as stated: whenever the query is not empty, the rows rendered are   *)
(* exactly the rows of originalData that contain the query in some field.  *)
C16_RenderedRowsMatchQuery ==
    searchQuery # <<>> =>
        /\ \A i \in 1..Len(rowsToRender) : RowMatches(rowsToRender[i], searchQuery)
        /\ \A i \in 1..Len(originalData) :
              RowMatches(originalData[i], searchQuery)
                  => \E j \in 1..Len(rowsToRender) : rowsToRender[j] = originalData[i]
        /\ \A j \in 1..Len(rowsToRender) :
              \E i \in 1..Len(originalData) : originalData[i] = rowsToRender[j]

----------------------------------------------------------------------------
(* The stored target after a tick                                          *)

(* C17: the clock not going backwards, after every tick taken at instant   *)
(* now the stored target is getNextResetTarget(now): a Monday 12:00:00.000 *)
(* strictly after now and at most seven days after it, also when more than *)
(* a week has passed since the target was computed.                        *)
C17_TargetIsNextReset ==
    ticked =>
        /\ target = getNextResetTarget(lastTick)
        /\ getDay(target) = 1
        /\ target.ms = NoonMs
        /\ DateLt(lastTick, target)
        /\ DateDiff(target, lastTick) <= 7 * MsPerDay

(* One tick has moved the target on by two weeks *)
C17_Witness ==
    /\ ticked
    /\ prevTarget # NoDate
    /\ DateDiff(target, prevTarget) = 14 * MsPerDay
    /\ target = getNextResetTarget(lastTick)

====
